---- MODULE Spec2Model ----
(***************************************************************************)
(* rhosy: a polyphonic wavetable synthesizer.  The decoder thread          *)
(* (get_midi_event) turns MIDI messages into commands on command_queue;    *)
(* the audio callback (output_callback) drains the queue, updates          *)
(* current_notes and sustaining, and mixes one block from every Note.      *)
(*                                                                         *)
(* Envelope amplitudes are Python floats (IEEE-754 binary64).  Every value *)
(* the envelope code computes is a multiple of 2^-65 below 2^15, so a      *)
(* float is modelled exactly: a sign and a magnitude counted in units of   *)
(* 2^-65, the magnitude held in five 16-bit limbs (TLC integers are 32     *)
(* bits wide), and every operation rounds its exact result to 53           *)
(* significant bits, ties to even, as the hardware does.                   *)
(***************************************************************************)
EXTENDS Integers, Sequences, FiniteSets, TLC

(***************************************************************************)
(* Magnitudes: little-endian tuples of five limbs, base 2^16.              *)
(***************************************************************************)
Base == 2^16

BigZero == <<0, 0, 0, 0, 0>>

\* 2^65 units, the float 1.0
BigOne == <<0, 0, 0, 0, 2>>

BigOfInt(n) == <<n % Base, n \div Base, 0, 0, 0>>

BigAdd(a, b) ==
    LET s1 == a[1] + b[1]
        s2 == a[2] + b[2] + (s1 \div Base)
        s3 == a[3] + b[3] + (s2 \div Base)
        s4 == a[4] + b[4] + (s3 \div Base)
        s5 == a[5] + b[5] + (s4 \div Base)
    IN  <<s1 % Base, s2 % Base, s3 % Base, s4 % Base, s5>>

\* a - b for a >= b
BigSub(a, b) ==
    LET d1 == a[1] - b[1]
        d2 == a[2] - b[2] - (IF d1 < 0 THEN 1 ELSE 0)
        d3 == a[3] - b[3] - (IF d2 < 0 THEN 1 ELSE 0)
        d4 == a[4] - b[4] - (IF d3 < 0 THEN 1 ELSE 0)
        d5 == a[5] - b[5] - (IF d4 < 0 THEN 1 ELSE 0)
    IN  <<d1 % Base, d2 % Base, d3 % Base, d4 % Base, d5>>

BigLess(a, b) ==
    \E i \in 1..5 : a[i] < b[i] /\ \A j \in (i + 1)..5 : a[j] = b[j]

\* a * n for a small natural n
BigMulSmall(a, n) ==
    LET p1 == a[1] * n
        p2 == a[2] * n + (p1 \div Base)
        p3 == a[3] * n + (p2 \div Base)
        p4 == a[4] * n + (p3 \div Base)
        p5 == a[5] * n + (p4 \div Base)
    IN  <<p1 % Base, p2 % Base, p3 % Base, p4 % Base, p5>>

\* a divided by a small natural n: the quotient and the remainder
BigDivSmall(a, n) ==
    LET x5 == a[5]
        x4 == (x5 % n) * Base + a[4]
        x3 == (x4 % n) * Base + a[3]
        x2 == (x3 % n) * Base + a[2]
        x1 == (x2 % n) * Base + a[1]
    IN  [q |-> <<x1 \div n, x2 \div n, x3 \div n, x4 \div n, x5 \div n>>,
         r |-> x1 % n]

\* number of significant bits of a limb
LimbBits(x) == CHOOSE n \in 0..31 : x < 2^n /\ (n = 0 \/ x >= 2^(n - 1))

BigBits(a) ==
    IF a[5] > 0 THEN 64 + LimbBits(a[5])
    ELSE IF a[4] > 0 THEN 48 + LimbBits(a[4])
    ELSE IF a[3] > 0 THEN 32 + LimbBits(a[3])
    ELSE IF a[2] > 0 THEN 16 + LimbBits(a[2])
    ELSE LimbBits(a[1])

\* Significand width of binary64.
MantBits == 53

\* Round a magnitude to MantBits significant bits, ties to even; sticky says
\* that the exact value lies strictly above a.  s is the number of bits to
\* drop (at most 16 for the values of the model), rem the value of those bits.
RoundCut(a, sticky, s, rem) ==
    IF \/ 2 * rem > 2^s
       \/ 2 * rem = 2^s /\ (sticky \/ (IF s < 16 THEN (a[1] \div 2^s) % 2 = 1
                                       ELSE a[2] % 2 = 1))
    THEN BigAdd(<<a[1] - rem, a[2], a[3], a[4], a[5]>>, <<2^s, 0, 0, 0, 0>>)
    ELSE <<a[1] - rem, a[2], a[3], a[4], a[5]>>

RoundAt(a, sticky, s) == IF s <= 0 THEN a ELSE RoundCut(a, sticky, s, a[1] % 2^s)

BigRound(a, sticky) == RoundAt(a, sticky, BigBits(a) - MantBits)

(***************************************************************************)
(* Floats: [neg, mag].                                                     *)
(***************************************************************************)
F(neg, mag) == [neg |-> neg /\ mag # BigZero, mag |-> mag]

FZero == F(FALSE, BigZero)
FOne == F(FALSE, BigOne)

\* a <= 0
FLeqZero(a) == a.neg \/ a.mag = BigZero

\* a < b, a <= b, a >= 1
FLess(a, b) ==
    IF a.neg /\ ~b.neg THEN TRUE
    ELSE IF ~a.neg /\ b.neg THEN FALSE
    ELSE IF a.neg THEN BigLess(b.mag, a.mag)
    ELSE BigLess(a.mag, b.mag)

FLeq(a, b) == ~FLess(b, a)

\* 1.0 / n for a whole float n whose quotient has at least MantBits bits;
\* d is the whole quotient and the remainder of 2^65 by n.
DivRound(d, n) ==
    IF BigBits(d.q) > MantBits THEN BigRound(d.q, d.r > 0)
    ELSE IF 2 * d.r > n \/ (2 * d.r = n /\ d.q[1] % 2 = 1)
         THEN BigAdd(d.q, BigOfInt(1))
         ELSE d.q

FDivOne(n) == F(FALSE, DivRound(BigDivSmall(BigOne, n), n))

\* n * a for an int n >= 0
FMulInt(n, a) == F(a.neg, BigRound(BigMulSmall(a.mag, n), FALSE))

\* The exact sum of two floats, then a + b and a - b.
ExactSum(a, b) ==
    IF a.neg = b.neg THEN [neg |-> a.neg, mag |-> BigAdd(a.mag, b.mag)]
    ELSE IF BigLess(a.mag, b.mag) THEN [neg |-> b.neg, mag |-> BigSub(b.mag, a.mag)]
    ELSE [neg |-> a.neg, mag |-> BigSub(a.mag, b.mag)]

FRound(x) == F(x.neg, BigRound(x.mag, FALSE))

FAdd(a, b) == FRound(ExactSum(a, b))

FSub(a, b) == FRound(ExactSum(a, F(~b.neg, b.mag)))

\* a / n for an int n > 0
FDivInt(a, n) == F(a.neg, DivRound(BigDivSmall(a.mag, n), n))

\* ndarray.clip(0, 1) on one value
FClip01(a) == IF FLeqZero(a) THEN FZero ELSE IF FLess(FOne, a) THEN FOne ELSE a

(***************************************************************************)
(* Program constants and the wave tables.                                  *)
(***************************************************************************)
sample_rate == 48000

blocksize == 16

None == <<>>
Some(x) == <<x>>
IsSet(o) == o # None
Val(o) == o[1]

\* Keys of the model: two A notes, whose frequencies 440 * 2^j are whole or
\* dyadic, so that make_sin's table length is computed exactly.
Keys == {57, 69}

\* len(make_sin(440 * 2 ** ((note - 69) / 12))) for note = 69 + 12 j:
\* period = sample_rate / f = pn / pd, ncycles = ceil(blocksize / period),
\* nsin = round(ncycles * period).
TableLen(note) ==
    LET j == (note - 69) \div 12
        pn == sample_rate * (IF j < 0 THEN 2^(0 - j) ELSE 1)
        pd == 440 * (IF j > 0 THEN 2^j ELSE 1)
        ncycles == (blocksize * pd + pn - 1) \div pn
    IN  (2 * ncycles * pn + pd) \div (2 * pd)

(***************************************************************************)
(* class Note                                                              *)
(***************************************************************************)
attack_samples == (10 * sample_rate) \div 1000

release_samples == (100 * sample_rate) \div 1000

Note_init(key) ==
    [t |-> 0,
     key |-> key,
     release_rate |-> None,
     attack_rate |-> Some(FDivOne(attack_samples)),
     attack_amplitude |-> FZero,
     release_amplitude |-> None,
     held |-> FALSE]

\* np.max(end_amplitude, 0): the second argument of np.max is the axis, and a
\* reduction of a scalar over axis 0 returns the scalar itself.
np_max_axis(x, axis) == x

\* Two one-dimensional shapes broadcast together.
Broadcasts(m, n) == m = n \/ m = 1 \/ n = 1

Max2(m, n) == IF m > n THEN m ELSE n

\* The two ends of np.linspace(a, b, n).clip(0, 1).
Ramp(a, b, n) == [g0 |-> FClip01(a), g1 |-> IF n = 1 THEN FClip01(a) ELSE FClip01(b)]

\* Mutant of Extract: the slice is taken when t_start <= t_end.
Extract_Leq(t, frame_count, nwave_table) ==
    LET t_start == t % nwave_table
        t_end == (t + frame_count) % nwave_table
    IN  IF t_start <= t_end
        THEN [i \in 1..(t_end - t_start) |-> t_start + i - 1]
        ELSE [i \in 1..(nwave_table - t_start) |-> t_start + i - 1]
                 \o [i \in 1..t_end |-> i - 1]

\* "Wrap the output as needed": the block Note.play extracts, as the indices
\* of the table entries it holds (the table taken as wave_table[i] = i).
Extract(t, frame_count, nwave_table) ==
    LET t_start == t % nwave_table
        t_end == (t + frame_count) % nwave_table
    IN  IF t_start < t_end
        THEN [i \in 1..(t_end - t_start) |-> t_start + i - 1]
        ELSE [i \in 1..(nwave_table - t_start) |-> t_start + i - 1]
                 \o [i \in 1..t_end |-> i - 1]

\* Length of the block the wrap-around extraction of Note.play yields.
ExtractLen(t, frame_count, nwave_table) ==
    IF (t % nwave_table) < ((t + frame_count) % nwave_table)
    THEN ((t + frame_count) % nwave_table) - (t % nwave_table)
    ELSE (nwave_table - (t % nwave_table)) + ((t + frame_count) % nwave_table)

\* What a step of Note.play hands on: the note, ret = "go" (carry on), "None"
\* (finished), "sound" or "raise" (ValueError: blocks of lengths that do not
\* broadcast), the length of the block and the two ends of the envelope ramp
\* it has been scaled by.
PlayState(note, ret, len, g0, g1) ==
    [note |-> note, ret |-> ret, len |-> len, g0 |-> g0, g1 |-> g1]

\* Mutant of PlayRelease: the decay does not look at held.
PlayRelease_IgnoreHeld(note, frame_count, len, end_amplitude) ==
    IF ~IsSet(note.release_rate)
    THEN PlayState(note, "go", len, FOne, FOne)
    ELSE IF FLeqZero(Val(note.release_amplitude))
    THEN PlayState(note, "None", len, FOne, FOne)
    ELSE PlayState([note EXCEPT !.release_amplitude = Some(end_amplitude)],
                   "go", Max2(len, frame_count),
                   Ramp(Val(note.release_amplitude), end_amplitude, frame_count).g0,
                   Ramp(Val(note.release_amplitude), end_amplitude, frame_count).g1)

\* Mutant of PlayRelease: the Note finishes in the call whose decay reaches 0.
PlayRelease_Eager(note, frame_count, len, end_amplitude) ==
    IF ~(IsSet(note.release_rate) /\ ~note.held)
    THEN PlayState(note, "go", len, FOne, FOne)
    ELSE IF FLeqZero(Val(note.release_amplitude)) \/ FLeqZero(end_amplitude)
    THEN PlayState(note, "None", len, FOne, FOne)
    ELSE PlayState([note EXCEPT !.release_amplitude = Some(end_amplitude)],
                   "go", Max2(len, frame_count),
                   Ramp(Val(note.release_amplitude), end_amplitude, frame_count).g0,
                   Ramp(Val(note.release_amplitude), end_amplitude, frame_count).g1)

\* "Handle release as needed", end_amplitude being given.
PlayRelease(note, frame_count, len, end_amplitude) ==
    IF ~(IsSet(note.release_rate) /\ ~note.held)
    THEN PlayState(note, "go", len, FOne, FOne)
    ELSE IF FLeqZero(Val(note.release_amplitude))
    THEN PlayState(note, "None", len, FOne, FOne)
    ELSE IF ~Broadcasts(len, frame_count)
    THEN PlayState(note, "raise", len, FOne, FOne)
    ELSE PlayState([note EXCEPT !.release_amplitude = Some(np_max_axis(end_amplitude, 0))],
                   "go", Max2(len, frame_count),
                   Ramp(Val(note.release_amplitude), end_amplitude, frame_count).g0,
                   Ramp(Val(note.release_amplitude), end_amplitude, frame_count).g1)

\* "Handle attack as needed", end_amplitude being given, then "Get the samples".
PlayAttack(st, frame_count, end_amplitude) ==
    IF st.ret # "go" THEN st
    ELSE IF ~IsSet(st.note.attack_rate)
    THEN PlayState([st.note EXCEPT !.t = @ + frame_count], "sound", st.len, st.g0, st.g1)
    ELSE IF ~Broadcasts(st.len, frame_count)
    THEN PlayState(st.note, "raise", st.len, st.g0, st.g1)
    ELSE PlayState([st.note EXCEPT
                       !.t = @ + frame_count,
                       !.attack_rate = IF FLeq(FOne, end_amplitude) THEN None ELSE @,
                       !.attack_amplitude = IF FLeq(FOne, end_amplitude) THEN @
                                            ELSE end_amplitude],
                   "sound", Max2(st.len, frame_count),
                   Ramp(st.note.attack_amplitude, end_amplitude, frame_count).g0,
                   Ramp(st.note.attack_amplitude, end_amplitude, frame_count).g1)

\* Note.play: the note after the call and what the call returned, with the
\* phase the table read started at.
Note_play(note, frame_count) ==
    [phase |-> note.t % TableLen(note.key)] @@
    PlayAttack(
        PlayRelease(note, frame_count,
                    ExtractLen(note.t, frame_count, TableLen(note.key)),
                    FSub(Val(note.release_amplitude),
                         FMulInt(frame_count, Val(note.release_rate)))),
        frame_count,
        FAdd(note.attack_amplitude, FMulInt(frame_count, Val(note.attack_rate))))

\* np.linspace(start, stop, num)[j]: arange(num) * step + start with
\* step = (stop - start) / (num - 1), the last element set to stop.
Linspace(start, stop, num, j) ==
    IF num = 1 THEN start
    ELSE IF j = num - 1 THEN stop
    ELSE FAdd(FMulInt(j, FDivInt(FSub(stop, start), num - 1)), start)

\* The scale Note.play applies to the j-th sample of a block of frame_count
\* samples of a Note that is not released: the attack ramp, or none.
AttackScale(note, frame_count, j) ==
    IF IsSet(note.attack_rate)
    THEN FClip01(Linspace(note.attack_amplitude,
                          FAdd(note.attack_amplitude,
                               FMulInt(frame_count, Val(note.attack_rate))),
                          frame_count, j))
    ELSE FOne

\* Mutant of Note.release: the release always starts from 1.0.
Note_release_Full(note) ==
    [note EXCEPT !.release_rate = Some(FDivOne(release_samples)),
                 !.release_amplitude = Some(FOne),
                 !.attack_rate = None]

Note_release(note) ==
    LET n1 == [note EXCEPT !.release_rate = Some(FDivOne(release_samples)),
                           !.release_amplitude = Some(FOne)]
    IN  IF IsSet(n1.attack_rate)
        THEN [n1 EXCEPT !.release_amplitude = Some(n1.attack_amplitude),
                        !.attack_rate = None]
        ELSE n1

Note_hold(note) == [note EXCEPT !.held = TRUE]

Note_unhold(note) == [note EXCEPT !.held = FALSE]

(***************************************************************************)
(* The dict current_notes: Notes in insertion order, one per key.          *)
(***************************************************************************)
Has(notes, key) == \E i \in 1..Len(notes) : notes[i].key = key

Get(notes, key) == notes[CHOOSE i \in 1..Len(notes) : notes[i].key = key]

\* current_notes[key] = note
DictSet(notes, key, note) ==
    IF Has(notes, key)
    THEN [i \in 1..Len(notes) |-> IF notes[i].key = key THEN note ELSE notes[i]]
    ELSE Append(notes, note)

\* del current_notes[key] for every key of keys
DictDel(notes, keys) == SelectSeq(notes, LAMBDA n : n.key \notin keys)

(***************************************************************************)
(* State.                                                                  *)
(***************************************************************************)
VARIABLES
    current_notes,   \* the dict of playing Notes
    command_queue,   \* the SimpleQueue of (mesg_type, mesg)
    sustaining,      \* the sustain pedal is down
    pc,              \* where the audio callback is: idle, drain, get, mix,
                     \* aborted (it raised), exited (the program is over)
    frame_count,     \* the frame_count of the running callback
    out_data,        \* the last block written: the sounds summed into it
    finishing,       \* the "finishing note" lines the last mix printed: key, t
    error,           \* the exception that ended the callback, or "none"
    running,         \* the decoder loop has not been stopped
    nsent,           \* history: commands put on the queue so far; a command
                     \* carries its number as the identity of its mesg object
    napplied,        \* history: commands the callback has taken off the queue
                     \* and run the loop body on so far
    last_applied,    \* history: the number of the command taken last
    began,           \* history: nsent when the running callback began
    doomed,          \* history: the keys whose Note was released, not held and
                     \* at a release amplitude <= 0 when the running callback
                     \* began, and has not been replaced since
    ncallbacks       \* history: callbacks invoked so far

vars == <<current_notes, command_queue, sustaining, pc, frame_count, out_data,
          finishing, error, running, nsent, napplied, last_applied, began, doomed,
          ncallbacks>>

\* Bounds of the model: commands put and callbacks invoked in one behaviour.
MaxSent == 3

MaxCallbacks == 3

\* frame_count values the audio host passes: the configured blocksize and a
\* longer block that still fits every table of Keys.
FrameCounts == {blocksize, 6 * blocksize}

\* MIDI messages the controller delivers.
NoteMessages ==
    [type : {"note_on"}, note : Keys, velocity : {0, 64}]
        \cup [type : {"note_off"}, note : Keys, velocity : {64}]

ControlMessages ==
    [type : {"control_change"}, control : {64}, value : {0, 127}]
        \cup [type : {"control_change"}, control : {7, 21, 22, 23}, value : {0}]

OtherMessages ==
    {[type |-> "pitchwheel", pitch |-> 0], [type |-> "program_change", program |-> 1]}

MidiMessages == NoteMessages \cup ControlMessages \cup OtherMessages

Init ==
    /\ current_notes = <<>>
    /\ command_queue = <<>>
    /\ sustaining = FALSE
    /\ pc = "idle"
    /\ frame_count = 0
    /\ out_data = <<>>
    /\ finishing = {}
    /\ error = "none"
    /\ running = TRUE
    /\ nsent = 0
    /\ napplied = 0
    /\ last_applied = 0
    /\ began = 0
    /\ doomed = {}
    /\ ncallbacks = 0

(***************************************************************************)
(* The decoder thread: one pass of get_midi_event.                         *)
(***************************************************************************)
\* Mutant of Decode: a message that is neither a note nor the pedal is put on
\* the queue under its own type.
Decode_PutAll(mesg) ==
    IF mesg.type \in {"note_on", "note_off"}
    THEN <<<<(IF mesg.type = "note_on" /\ mesg.velocity = 0 THEN "note_off"
               ELSE mesg.type), [note |-> mesg.note]>>>>
    ELSE IF mesg.type = "control_change" /\ mesg.control = 64
    THEN <<<<"sustain_pedal", [value |-> mesg.value]>>>>
    ELSE <<<<mesg.type, [value |-> 0]>>>>

\* The command get_midi_event puts for mesg (a tuple of one command:
\* mesg_type, mesg), <<>> when it puts nothing.  Of the mesg object a command
\* keeps the one attribute the callback reads: note, or value.
Decode(mesg) ==
    LET mesg_type == IF mesg.type = "note_on" /\ mesg.velocity = 0
                     THEN "note_off" ELSE mesg.type
    IN  IF mesg_type = "note_on" THEN <<<<mesg_type, [note |-> mesg.note]>>>>
        ELSE IF mesg_type = "note_off" THEN <<<<mesg_type, [note |-> mesg.note]>>>>
        ELSE IF mesg.type = "control_change" /\ mesg.control = 64
        THEN <<<<"sustain_pedal", [value |-> mesg.value]>>>>
        ELSE <<>>

\* get_midi_event returns False: the stop key
Stops(mesg) == mesg.type = "control_change" /\ mesg.control = 23

\* The state once the decoder loop has ended: the script is over, the
\* interpreter exits and takes the stream and every object with it.
Exited ==
    /\ current_notes' = <<>>
    /\ command_queue' = <<>>
    /\ sustaining' = FALSE
    /\ pc' = "exited"
    /\ frame_count' = 0
    /\ out_data' = <<>>
    /\ finishing' = {}
    /\ error' = "none"
    /\ running' = FALSE
    /\ nsent' = 0
    /\ napplied' = 0
    /\ last_applied' = 0
    /\ began' = 0
    /\ doomed' = {}
    /\ ncallbacks' = 0

\* Mutant of put: a queue of two places that drops what does not fit.
put_Bounded(queue, items) == IF Len(queue) >= 2 THEN queue ELSE queue \o items

\* SimpleQueue.put: the queue has no maxsize; put appends and returns at once.
put(queue, items) == queue \o items

\* Mutant of get_midi_event: the decoder sets sustaining itself.
get_midi_event_Direct(mesg) ==
    /\ running
    /\ IF Stops(mesg)
       THEN Exited
       ELSE /\ nsent' = nsent + Len(Decode(mesg))
            /\ command_queue' = command_queue \o
                                    [i \in 1..Len(Decode(mesg)) |->
                                        [id |-> nsent + i, cmd |-> Decode(mesg)[i]]]
            /\ sustaining' = IF mesg.type = "control_change" /\ mesg.control = 64
                             THEN mesg.value > 0 ELSE sustaining
            /\ UNCHANGED <<current_notes, pc, frame_count, out_data,
                           finishing, error, running, napplied, last_applied,
                           began, doomed, ncallbacks>>

get_midi_event(mesg) ==
    /\ running
    /\ IF Stops(mesg)
       THEN Exited
       ELSE /\ nsent' = nsent + Len(Decode(mesg))
            /\ command_queue' = put(command_queue,
                                    [i \in 1..Len(Decode(mesg)) |->
                                        [id |-> nsent + i, cmd |-> Decode(mesg)[i]]])
            /\ UNCHANGED <<current_notes, sustaining, pc, frame_count, out_data,
                           finishing, error, running, napplied, last_applied,
                           began, doomed, ncallbacks>>

(***************************************************************************)
(* The audio callback, output_callback.                                    *)
(***************************************************************************)
\* Mutants of ApplyNoteOn: the new Note is not held under a pressed pedal;
\* a key that is already playing keeps its Note.
ApplyNoteOn_NoHold(notes, sust, key) == DictSet(notes, key, Note_init(key))

ApplyNoteOn_Keep(notes, sust, key) ==
    IF Has(notes, key) THEN notes
    ELSE DictSet(notes, key, [Note_init(key) EXCEPT !.held = sust])

\* note_on: a new Note for the key, held at once if the pedal is down
ApplyNoteOn(notes, sust, key) ==
    LET new_note == Note_init(key)
    IN  DictSet(notes, key, IF sust THEN [new_note EXCEPT !.held = TRUE] ELSE new_note)

\* note_off: current_notes[key].release(); the lookup raises KeyError for a
\* key that is not in the dict
ApplyNoteOff(notes, key) ==
    IF Has(notes, key)
    THEN [notes |-> DictSet(notes, key, Note_release(Get(notes, key))), error |-> "none"]
    ELSE [notes |-> notes, error |-> "KeyError"]

\* sustain_pedal: hold or unhold every Note
ApplySustain(notes, sust) ==
    [i \in 1..Len(notes) |-> IF sust THEN Note_hold(notes[i]) ELSE Note_unhold(notes[i])]

\* One pass of the body of the drain loop on the command cmd.
ApplyCommand(cmd, notes, sust) ==
    LET mesg_type == cmd[1]
        mesg == cmd[2]
    IN  IF mesg_type = "note_on"
        THEN [notes |-> ApplyNoteOn(notes, sust, mesg.note), sustaining |-> sust,
              error |-> "none"]
        ELSE IF mesg_type = "note_off"
        THEN [notes |-> ApplyNoteOff(notes, mesg.note).notes, sustaining |-> sust,
              error |-> ApplyNoteOff(notes, mesg.note).error]
        ELSE IF mesg_type = "sustain_pedal"
        THEN [notes |-> ApplySustain(notes, mesg.value > 0),
              sustaining |-> mesg.value > 0, error |-> "none"]
        ELSE [notes |-> notes, sustaining |-> sust, error |-> "Exception"]

\* Mutant of AfterCommand: an if in place of the while, one command a callback.
AfterCommand_If == "mix"

\* Where the callback goes after a command: back to the test of the while loop.
AfterCommand == "drain"

\* The sound a played Note adds to the output.
Sound(r) == [key |-> r.note.key, phase |-> r.phase, len |-> r.len,
             g0 |-> r.g0, g1 |-> r.g1]

\* The mixing loop from the i-th Note on: every Note is played in dict order;
\* a played block is added to the output (which raises ValueError unless the
\* block has frame_count samples or one), a finished Note is marked.  m is
\* what the loop has gathered: the sounds added, the finished keys and the
\* "finishing note" lines printed.
RECURSIVE MixLoop(_, _, _, _)
MixNote(notes, i, fc, m, r) ==
    IF r.ret = "None"
    THEN MixLoop(notes, i + 1, fc,
                 [m EXCEPT !.finished_keys = @ \cup {notes[i].key},
                           !.finishing = @ \cup {[key |-> notes[i].key,
                                                  t |-> notes[i].t]}])
    ELSE IF r.ret = "raise" \/ ~(r.len = fc \/ r.len = 1)
    THEN [m EXCEPT !.notes = [notes EXCEPT ![i] = r.note], !.error = "ValueError"]
    ELSE MixLoop([notes EXCEPT ![i] = r.note], i + 1, fc,
                 [m EXCEPT !.sounds = Append(@, Sound(r))])

MixLoop(notes, i, fc, m) ==
    IF i > Len(notes)
    THEN [m EXCEPT !.notes = notes]
    ELSE MixNote(notes, i, fc, m, Note_play(notes[i], fc))

\* The mixing loop on the whole dict.
Mix(notes, fc) ==
    MixLoop(notes, 1, fc, [notes |-> notes, sounds |-> <<>>, finished_keys |-> {},
                           finishing |-> {}, error |-> "none"])

\* The Note of key is released, not held and at a release amplitude <= 0.
Dead(notes, key) ==
    /\ Has(notes, key)
    /\ IsSet(Get(notes, key).release_rate)
    /\ ~Get(notes, key).held
    /\ FLeqZero(Val(Get(notes, key).release_amplitude))

\* The callback is invoked with frame_count = fc.
output_callback(fc) ==
    /\ running
    /\ pc = "idle"
    /\ pc' = "drain"
    /\ frame_count' = fc
    /\ began' = nsent
    /\ doomed' = {key \in Keys : Dead(current_notes, key)}
    /\ ncallbacks' = ncallbacks + 1
    /\ UNCHANGED <<current_notes, command_queue, sustaining, out_data, finishing,
                   error, running, nsent, napplied, last_applied>>

\* Mutant of queue_empty: the loop calls get() without testing empty().
queue_empty_NoTest ==
    /\ running
    /\ pc = "drain"
    /\ pc' = "get"
    /\ UNCHANGED <<current_notes, command_queue, sustaining, frame_count, out_data,
                   finishing, error, running, nsent, napplied, last_applied, began,
                   doomed, ncallbacks>>

\* while not command_queue.empty()
queue_empty ==
    /\ running
    /\ pc = "drain"
    /\ pc' = IF command_queue = <<>> THEN "mix" ELSE "get"
    /\ UNCHANGED <<current_notes, command_queue, sustaining, frame_count, out_data,
                   finishing, error, running, nsent, napplied, last_applied, began,
                   doomed, ncallbacks>>

\* The state after the body of the drain loop has run with result r.
Applied(r) ==
    /\ command_queue' = Tail(command_queue)
    /\ current_notes' = r.notes
    /\ sustaining' = r.sustaining
    /\ error' = r.error
    /\ pc' = IF r.error = "none" THEN AfterCommand ELSE "aborted"
    /\ napplied' = napplied + 1
    /\ last_applied' = Head(command_queue).id
    /\ doomed' = IF Head(command_queue).cmd[1] = "note_on"
                 THEN doomed \ {Head(command_queue).cmd[2].note} ELSE doomed

\* command_queue.get(), which blocks while the queue is empty, and the body of
\* the loop on the command it returns.
queue_get ==
    /\ running
    /\ pc = "get"
    /\ command_queue # <<>>
    /\ Applied(ApplyCommand(Head(command_queue).cmd, current_notes, sustaining))
    /\ UNCHANGED <<frame_count, out_data, finishing, running, nsent, began,
                   ncallbacks>>

\* The state after the mixing loop has run with result r: finished notes are
\* removed and out_data written, unless the loop raised.
Mixed(r) ==
    IF r.error = "none"
    THEN /\ current_notes' = DictDel(r.notes, r.finished_keys)
         /\ out_data' = r.sounds
         /\ finishing' = r.finishing
         /\ pc' = "idle"
         /\ error' = error
         /\ frame_count' = 0
         /\ began' = 0
         /\ doomed' = {}
    ELSE /\ current_notes' = r.notes
         /\ out_data' = out_data
         /\ finishing' = r.finishing
         /\ pc' = "aborted"
         /\ error' = r.error
         /\ UNCHANGED <<frame_count, began, doomed>>

\* Mix samples from notes, remove finished notes, write out_data.
mix_notes ==
    /\ running
    /\ pc = "mix"
    /\ Mixed(Mix(current_notes, frame_count))
    /\ UNCHANGED <<command_queue, sustaining, running, nsent, napplied,
                   last_applied, ncallbacks>>

(***************************************************************************)
(* Specifications.                                                         *)
(***************************************************************************)
\* The two threads, the controller delivering messages of msgs and the audio
\* host invoking the callback with frame counts of fcs, until max_sent
\* commands have been put and max_callbacks callbacks invoked.
Step(msgs, fcs, max_sent, max_callbacks) ==
    \/ \E mesg \in msgs : nsent < max_sent /\ get_midi_event(mesg)
    \/ \E fc \in fcs : ncallbacks < max_callbacks /\ output_callback(fc)
    \/ queue_empty
    \/ queue_get
    \/ mix_notes

\* The synthesizer with two keys and every kind of MIDI message.
Next == Step(MidiMessages, FrameCounts, MaxSent, MaxCallbacks)

Spec == Init /\ [][Next]_vars

\* One key, note and pedal messages only, over longer runs.
VoiceKey == CHOOSE key \in Keys : \A other \in Keys : other <= key

VoiceMessages == {m \in NoteMessages : m.note = VoiceKey}
                     \cup {m \in ControlMessages : m.control = 64}

MaxVoiceSent == 4

MaxVoiceCallbacks == 4

NextVoice == Step(VoiceMessages, FrameCounts, MaxVoiceSent, MaxVoiceCallbacks)

SpecVoice == Init /\ [][NextVoice]_vars

\* The life of one note as the program is configured: the stream is opened
\* with blocksize, so every callback gets frame_count = blocksize; the key is
\* pressed once and released at most once.
MaxNoteCallbacks == 33

NoteLife(mesg) ==
    \/ mesg.type = "note_on" /\ mesg.velocity > 0 /\ nsent = 0
    \/ mesg.type = "note_off" /\ nsent = 1

NextNote ==
    \/ \E mesg \in VoiceMessages : NoteLife(mesg) /\ get_midi_event(mesg)
    \/ ncallbacks < MaxNoteCallbacks /\ output_callback(blocksize)
    \/ queue_empty
    \/ queue_get
    \/ mix_notes

SpecNote == Init /\ [][NextNote]_vars

\* The release of one note as the program is configured (frame_count =
\* blocksize): the key is pressed before the first callback and released
\* between callbacks, either at once or when the attack has just run out, and
\* nothing else is sent.
MaxReleaseCallbacks == 335

\* Callbacks the attack takes.
AttackCallbacks == (attack_samples \div blocksize) + 1

NoteReleased(mesg) ==
    /\ pc = "idle"
    /\ \/ mesg.type = "note_on" /\ mesg.velocity > 0 /\ nsent = 0 /\ ncallbacks = 0
       \/ mesg.type = "note_off" /\ nsent = 1 /\ ncallbacks \in {0, AttackCallbacks}

NextRelease ==
    \/ \E mesg \in VoiceMessages : NoteReleased(mesg) /\ get_midi_event(mesg)
    \/ ncallbacks < MaxReleaseCallbacks /\ output_callback(blocksize)
    \/ queue_empty
    \/ queue_get
    \/ mix_notes

SpecRelease == Init /\ [][NextRelease]_vars

\* One key, with callbacks that are asked for no frames at all among those of
\* blocksize frames.
ZeroFrameCounts == {0, blocksize}

NextZero == Step(VoiceMessages, ZeroFrameCounts, MaxSent, MaxCallbacks)

SpecZero == Init /\ [][NextZero]_vars

\* One key pressed once, with callbacks of frame counts from a single sample
\* to the whole table, chosen so that reads end on the table boundary.
MaxExtractCallbacks == 3

ExtractCounts ==
    {1, blocksize, TableLen(VoiceKey) - blocksize, TableLen(VoiceKey) - 1,
     TableLen(VoiceKey)}

NextExtract ==
    \/ \E mesg \in VoiceMessages :
           /\ mesg.type = "note_on" /\ mesg.velocity > 0 /\ nsent = 0
           /\ get_midi_event(mesg)
    \/ \E fc \in ExtractCounts :
           ncallbacks < MaxExtractCallbacks /\ output_callback(fc)
    \/ queue_empty
    \/ queue_get
    \/ mix_notes

SpecExtract == Init /\ [][NextExtract]_vars

(***************************************************************************)
(* Properties.                                                             *)
(***************************************************************************)
\* The step is queue_get: the callback takes the head command and applies it.
GetStep == pc = "get" /\ pc' \notin {"get", "exited"}

\* The step is mix_notes.
MixStep == pc = "mix" /\ pc' \notin {"mix", "exited"}

HeadCmd == Head(command_queue).cmd

NoteKeys(notes) == {notes[i].key : i \in 1..Len(notes)}

\* C1: a note_off for a key that has no Note is a silent no-op: the callback
\* raises nothing, leaves current_notes and sustaining as they are and goes
\* back to draining the queue.
C1_NoteOffAbsentIsNoOp ==
    [][(GetStep /\ HeadCmd[1] = "note_off" /\ ~Has(current_notes, HeadCmd[2].note))
          => /\ error' = "none"
             /\ pc' = "drain"
             /\ current_notes' = current_notes
             /\ sustaining' = sustaining]_vars

\* C2: commands are applied in the order they were put, none lost, doubled or
\* overtaken: the k-th command the callback applies is the k-th put, the queue
\* holds the rest in order, and when a callback starts to mix, every command
\* put before it began has been applied.
C2_AppliedInOrder ==
    /\ last_applied = napplied
    /\ \A i \in 1..Len(command_queue) : command_queue[i].id = napplied + i
    /\ napplied + Len(command_queue) = nsent
    /\ pc = "mix" => napplied >= began

\* Witness: a callback about to mix has applied two commands put before it
\* began and a third put while it was draining.
C2_Witness == pc = "mix" /\ began = 2 /\ napplied = 3

\* C3: while the pedal is down every Note is held.
C3_SustainingHoldsAll ==
    sustaining => \A i \in 1..Len(current_notes) : current_notes[i].held

\* Witness: the pedal is down over a Note that has played and a Note created
\* since.
C3_Witness ==
    /\ sustaining
    /\ \E i, j \in 1..Len(current_notes) : current_notes[i].t > 0 /\ current_notes[j].t = 0

\* C4: current_notes holds one Note per key, and a note_on leaves for its key
\* a fresh Note: phase 0, attack amplitude 0, attack running, no release.
C4_NoteOnReplaces ==
    [][/\ \A i, j \in 1..Len(current_notes') :
              current_notes'[i].key = current_notes'[j].key => i = j
       /\ (GetStep /\ HeadCmd[1] = "note_on")
              => /\ Has(current_notes', HeadCmd[2].note)
                 /\ LET n == Get(current_notes', HeadCmd[2].note)
                    IN  /\ n.t = 0
                        /\ n.attack_amplitude = FZero
                        /\ n.attack_rate = Some(FDivOne(attack_samples))
                        /\ n.release_rate = None
                        /\ n.release_amplitude = None
                        /\ n.held = sustaining]_vars

\* Witness: a fresh Note stands where the last block still holds the decaying
\* sound of a released Note of the same key.
C4_Witness ==
    \E i \in 1..Len(current_notes), j \in 1..Len(out_data) :
        /\ current_notes[i].t = 0
        /\ out_data[j].key = current_notes[i].key
        /\ FLess(out_data[j].g1, out_data[j].g0)

\* C9: release() is never applied twice to a Note: the release amplitude of a
\* released Note never goes up.
C9_ReleaseNeverRestarts ==
    [][\A key \in Keys :
           (/\ Has(current_notes, key) /\ IsSet(Get(current_notes, key).release_rate)
            /\ Has(current_notes', key) /\ IsSet(Get(current_notes', key).release_rate))
               => FLeq(Val(Get(current_notes', key).release_amplitude),
                       Val(Get(current_notes, key).release_amplitude))]_vars

In01(a) == ~a.neg /\ FLeq(a, FOne)

\* C10: attack amplitudes lie in [0, 1], and so do the release amplitudes of
\* released Notes.
C10_AmplitudesIn01 ==
    \A i \in 1..Len(current_notes) :
        /\ In01(current_notes[i].attack_amplitude)
        /\ IsSet(current_notes[i].release_rate)
               => In01(Val(current_notes[i].release_amplitude))

\* C5: a mix leaves a released Note that is held in current_notes with its
\* release amplitude as it was; pressing or lifting the pedal does not change
\* a release amplitude; and the mix of a released Note that is not held starts
\* its decay ramp at the release amplitude the Note had.
C5_SustainFreeze ==
    [][/\ MixStep =>
              \A i \in 1..Len(current_notes) :
                  IsSet(current_notes[i].release_rate) =>
                      /\ current_notes[i].held =>
                             /\ Has(current_notes', current_notes[i].key)
                             /\ Get(current_notes', current_notes[i].key).release_amplitude
                                    = current_notes[i].release_amplitude
                      /\ (/\ ~current_notes[i].held
                          /\ ~FLeqZero(Val(current_notes[i].release_amplitude))) =>
                             \E j \in 1..Len(out_data') :
                                 /\ out_data'[j].key = current_notes[i].key
                                 /\ out_data'[j].g0 = Val(current_notes[i].release_amplitude)
                                 /\ FLess(out_data'[j].g1, out_data'[j].g0)
       /\ (GetStep /\ HeadCmd[1] = "sustain_pedal") =>
              /\ Len(current_notes') = Len(current_notes)
              /\ \A i \in 1..Len(current_notes) :
                     current_notes'[i].release_amplitude
                         = current_notes[i].release_amplitude]_vars

\* Witness: a Note that attacked for one block, was released under the pedal,
\* played one block frozen and, the pedal lifted, one block of decay from the
\* frozen amplitude.
C5_Witness ==
    \E i \in 1..Len(current_notes) :
        /\ ~current_notes[i].held
        /\ current_notes[i].t = 3 * blocksize
        /\ current_notes[i].release_amplitude =
               Some(FSub(FMulInt(blocksize, FDivOne(attack_samples)),
                         FMulInt(blocksize, FDivOne(release_samples))))

\* C6: release() on a Note whose attack is running starts the release at the
\* attack amplitude and ends the attack; on a Note whose attack is over it
\* starts the release at 1.0.
C6_ReleaseFromAttack ==
    [][(GetStep /\ HeadCmd[1] = "note_off" /\ Has(current_notes, HeadCmd[2].note)) =>
           /\ Has(current_notes', HeadCmd[2].note)
           /\ LET old == Get(current_notes, HeadCmd[2].note)
                  new == Get(current_notes', HeadCmd[2].note)
              IN  /\ new.attack_rate = None
                  /\ IsSet(new.release_rate)
                  /\ new.release_amplitude =
                         IF IsSet(old.attack_rate) THEN Some(old.attack_amplitude)
                         ELSE Some(FOne)]_vars

\* Witness: a Note released half way up its attack: the attack is ended and
\* the release stands at the attack amplitude, fifteen blocks' worth.
C6_Witness ==
    \E i \in 1..Len(current_notes) :
        /\ current_notes[i].t = 15 * blocksize
        /\ current_notes[i].attack_rate = None
        /\ IsSet(current_notes[i].release_rate)
        /\ current_notes[i].release_amplitude = Some(current_notes[i].attack_amplitude)
        /\ FLess(FZero, current_notes[i].attack_amplitude)
        /\ FLess(current_notes[i].attack_amplitude, FOne)

\* C7: from note_on, with no note_off, the attack amplitude never goes down
\* and never exceeds 1.0, and the attack is over exactly when attack_samples
\* samples have been rendered.
C7_AttackExact ==
    [][\A i \in 1..Len(current_notes') :
           current_notes'[i].release_rate = None =>
               /\ IsSet(current_notes'[i].attack_rate)
                      <=> current_notes'[i].t < attack_samples
               /\ In01(current_notes'[i].attack_amplitude)
               /\ (MixStep /\ i <= Len(current_notes)) =>
                      FLeq(current_notes[i].attack_amplitude,
                           current_notes'[i].attack_amplitude)]_vars

\* C8: a Note that was released, not held and at a release amplitude <= 0 when
\* a callback began, and has not been replaced by a note_on since, is gone
\* after that callback and adds nothing to its block.
C8_DoomedIsReaped ==
    [][MixStep =>
           \A key \in doomed :
               /\ ~Has(current_notes', key)
               /\ \A j \in 1..Len(out_data') : out_data'[j].key # key]_vars

\* C11: a Note released with the pedal up leaves current_notes: one released
\* before it played a sample is gone after the first mix, and one released
\* from full amplitude renders no more than release_samples samples of release
\* (it is never seen with more than that played since its release).
C11_ReleasedIsRemoved ==
    [][/\ MixStep =>
              \A i \in 1..Len(current_notes) :
                  (IsSet(current_notes[i].release_rate) /\ current_notes[i].t = 0)
                      => ~Has(current_notes', current_notes[i].key)
       /\ \A i \in 1..Len(current_notes') :
              IsSet(current_notes'[i].release_rate)
                  => current_notes'[i].t
                         <= AttackCallbacks * blocksize + release_samples]_vars

\* C12: the mix of a callback invoked with frame_count = 0 raises nothing,
\* writes an empty block and leaves current_notes, every Note in it included,
\* as it was.
C12_ZeroFramesIsNoOp ==
    [][(MixStep /\ frame_count = 0)
          => /\ error' = "none"
             /\ pc' = "idle"
             /\ \A j \in 1..Len(out_data') : out_data'[j].len = 0
             /\ current_notes' = current_notes]_vars

\* C13: whatever message the decoder receives, a command on the queue is
\* tagged note_on, note_off or sustain_pedal, and the callback never raises
\* its "bad message in command queue" exception.
C13_OnlyThreeTags ==
    /\ \A i \in 1..Len(command_queue) :
           command_queue[i].cmd[1] \in {"note_on", "note_off", "sustain_pedal"}
    /\ error # "Exception"

\* Witness: the callback is about to take the first of three queued commands,
\* one of each tag.
C13_Witness ==
    /\ pc = "get"
    /\ {command_queue[i].cmd[1] : i \in 1..Len(command_queue)}
           = {"note_on", "note_off", "sustain_pedal"}

SplitPoints(fc) == {k \in 1..(fc - 1) : k % (blocksize \div 2) = 0}

\* Playing fc samples of note in one call, and in two calls of k and fc - k
\* samples, gives the same Note, the same stretch of the table and the same
\* scale on every sample.
SplitSame(note, fc, k, whole, first, second) ==
    /\ whole.ret = "sound" /\ first.ret = "sound" /\ second.ret = "sound"
    /\ second.note = whole.note
    /\ first.phase = whole.phase
    /\ second.phase = (whole.phase + first.len) % TableLen(note.key)
    /\ first.len + second.len = whole.len
    /\ \A j \in 0..(fc - 1) :
           AttackScale(note, fc, j) =
               IF j < k THEN AttackScale(note, k, j)
               ELSE AttackScale(first.note, fc - k, j - k)

\* C15: for a Note that is not released, the samples and the final phase of a
\* render do not depend on how the render is cut into calls: the block a mix
\* plays in one call equals the two blocks of any split of it.
C15_PhaseContinuity ==
    [][MixStep =>
           \A i \in 1..Len(current_notes) :
               ~IsSet(current_notes[i].release_rate) =>
                   \A k \in SplitPoints(frame_count) :
                       SplitSame(current_notes[i], frame_count, k,
                                 Note_play(current_notes[i], frame_count),
                                 Note_play(current_notes[i], k),
                                 Note_play(Note_play(current_notes[i], k).note,
                                           frame_count - k))]_vars

\* C16: a step of the decoder thread (any step that is not a step of the
\* callback, the end of the program apart) leaves current_notes, every Note in
\* it included, and sustaining as they are, and leaves command_queue as it is
\* or with commands appended; only a step of the callback changes them.
C16_DecoderOnlyPuts ==
    [][(pc' = pc /\ pc' # "exited") =>
           /\ current_notes' = current_notes
           /\ sustaining' = sustaining
           /\ Len(command_queue') >= Len(command_queue)
           /\ \A i \in 1..Len(command_queue) : command_queue'[i] = command_queue[i]]_vars

\* Witness: with a Note playing under the pressed pedal, the decoder has put
\* a command since the last callback.
C16_Witness ==
    /\ pc = "idle"
    /\ sustaining
    /\ \E i \in 1..Len(current_notes) : current_notes[i].t > 0
    /\ command_queue # <<>>

\* The release amplitude Note.play computes for the end of a block.
ReleaseEnd(note, fc) ==
    FSub(Val(note.release_amplitude), FMulInt(fc, Val(note.release_rate)))

\* C17 as stated: a mix that plays a released Note that is not held, and
\* computes a release amplitude <= 0 for the end of the block, gets no samples
\* from it and removes it, its phase as it was.
C17_FinishedWhenDecayEnds ==
    [][MixStep =>
           \A i \in 1..Len(current_notes) :
               (/\ IsSet(current_notes[i].release_rate)
                /\ ~current_notes[i].held
                /\ FLeqZero(ReleaseEnd(current_notes[i], frame_count)))
                   => /\ ~Has(current_notes', current_notes[i].key)
                      /\ \A j \in 1..Len(out_data') :
                             out_data'[j].key # current_notes[i].key]_vars

\* C17 as amended: the Note finishes on the release amplitude it holds when
\* the call starts: if that is <= 0 the mix gets no samples and removes the
\* Note; if not, the mix gets a block that decays from that amplitude, the
\* phase advances by frame_count and the amplitude computed for the end of
\* the block is kept, be it <= 0, so that the Note outlives the call in which
\* its decay reaches zero.
C17_FinishedOnStoredAmplitude ==
    [][(MixStep /\ error' = "none") =>
           \A i \in 1..Len(current_notes) :
               (IsSet(current_notes[i].release_rate) /\ ~current_notes[i].held) =>
                   IF FLeqZero(Val(current_notes[i].release_amplitude))
                   THEN /\ ~Has(current_notes', current_notes[i].key)
                        /\ \A j \in 1..Len(out_data') :
                               out_data'[j].key # current_notes[i].key
                   ELSE /\ Has(current_notes', current_notes[i].key)
                        /\ Get(current_notes', current_notes[i].key).t
                               = current_notes[i].t + frame_count
                        /\ Get(current_notes', current_notes[i].key).release_amplitude
                               = Some(ReleaseEnd(current_notes[i], frame_count))
                        /\ \E j \in 1..Len(out_data') :
                               /\ out_data'[j].key = current_notes[i].key
                               /\ out_data'[j].len = frame_count
                               /\ out_data'[j].g0 = Val(current_notes[i].release_amplitude)
                               /\ out_data'[j].g1 =
                                      FClip01(ReleaseEnd(current_notes[i], frame_count))]_vars

\* Witness: after a callback a released Note is still there with a release
\* amplitude <= 0, and the block holds its decay down to 0.
C17_Witness ==
    /\ pc = "idle"
    /\ \E i \in 1..Len(current_notes), j \in 1..Len(out_data) :
           /\ Dead(current_notes, current_notes[i].key)
           /\ current_notes[i].t > 0
           /\ out_data[j].key = current_notes[i].key
           /\ FLess(FZero, out_data[j].g0)
           /\ out_data[j].g1 = FZero

\* C18: for 1 <= frame_count <= table length, the block a Note plays has
\* frame_count samples, the i-th of them the table entry at (t + i) mod the
\* table length, and the Note's t advances by frame_count.
C18_ExtractWraps ==
    [][(MixStep /\ frame_count >= 1) =>
           \A n \in 1..Len(current_notes) :
               frame_count <= TableLen(current_notes[n].key) =>
                   LET note == current_notes[n]
                       block == Extract(note.t, frame_count, TableLen(note.key))
                   IN  /\ Len(block) = frame_count
                       /\ \A i \in 0..(frame_count - 1) :
                              block[i + 1] = (note.t + i) % TableLen(note.key)
                       /\ Has(current_notes', note.key) =>
                              /\ Get(current_notes', note.key).t = note.t + frame_count
                              /\ \E j \in 1..Len(out_data') :
                                     /\ out_data'[j].key = note.key
                                     /\ out_data'[j].phase = block[1]
                                     /\ out_data'[j].len = Len(block)]_vars

\* Witness: the last block read the whole table, starting inside it and
\* wrapping round its end.
C18_Witness ==
    /\ pc = "idle"
    /\ \E j \in 1..Len(out_data) :
           out_data[j].len = TableLen(out_data[j].key) /\ out_data[j].phase > 0

\* C19: the callback's get() never waits: whenever the callback stands at
\* get(), having seen the queue not empty, a command is there to take,
\* whatever the decoder has done in between.
C19_GetNeverBlocks == pc = "get" => command_queue # <<>>

\* Witness: the callback stands at get() and the decoder has put a command
\* since this callback began.
C19_Witness == pc = "get" /\ nsent > began /\ napplied >= began

\* C20: a released Note that is held is played at its frozen release
\* amplitude: the block a mix gets from it is scaled, first sample to last, by
\* the release amplitude the Note holds.
C20_HeldGainIsFrozen ==
    [][(MixStep /\ error' = "none") =>
           \A i \in 1..Len(current_notes) :
               (IsSet(current_notes[i].release_rate) /\ current_notes[i].held) =>
                   \E j \in 1..Len(out_data') :
                       /\ out_data'[j].key = current_notes[i].key
                       /\ out_data'[j].g0 = FClip01(Val(current_notes[i].release_amplitude))
                       /\ out_data'[j].g1 = FClip01(Val(current_notes[i].release_amplitude))]_vars

====
